---- MODULE Spec2Model ----
(***************************************************************************)
(* Model of the AI News Aggregator's server-side trends route              *)
(* (GET /api/trends and OPTIONS /api/trends in src/app/page.jsx, lines     *)
(* 248-474): one process-wide cache slot, request handlers that suspend at *)
(* their awaits, the upstream search call and its failure modes.           *)
(*                                                                         *)
(* JavaScript runs each handler to completion between awaits, so one       *)
(* action is the code between two awaits of one request.                   *)
(***************************************************************************)
EXTENDS Integers, Sequences, FiniteSets, TLC

(***************************************************************************)
(* Bounds of the model.                                                    *)
(***************************************************************************)
\* Number of request slots, i.e. of handlers that can be suspended together.
NumRequests == 2

\* Date.now() at process start, in ms (any positive time would do).
StartTime == 1000000

\* Offsets from StartTime at which the clock is observed: they make ages of
\* 0, 500 and 299500 ms (inside the freshness window) and of 300000 ms (the
\* window exactly).
Elapsed == {0, 500, 300000}

Clock == {StartTime + d : d \in Elapsed}

Requests == 1..NumRequests

\* Number of calls the page can have in flight together.
MaxCalls == 2

MaxTopics == 6

\* Longest upstream result set the filter is studied on (the query asks for
\* at most 30 per page).
MaxItems == 3

(***************************************************************************)
(* JavaScript values: null/undefined and absent JSON fields are Null, any  *)
(* other value v is Some(v).  Some(<<>>) (an empty array) is not Null.     *)
(***************************************************************************)
Null == <<>>

Some(v) == <<v>>

IsNull(o) == o = Null

Get(o) == o[1]

\* JavaScript truthiness of cache.data: null is falsy, every array (the empty
\* one too) is truthy.
Truthy(o) == ~IsNull(o)

(***************************************************************************)
(* Strings are sequences of one-character strings.                         *)
(***************************************************************************)
UpperChars ==
    <<"A", "B", "C", "D", "E", "F", "G", "H", "I", "J", "K", "L", "M",
      "N", "O", "P", "Q", "R", "S", "T", "U", "V", "W", "X", "Y", "Z">>

LowerChars ==
    <<"a", "b", "c", "d", "e", "f", "g", "h", "i", "j", "k", "l", "m",
      "n", "o", "p", "q", "r", "s", "t", "u", "v", "w", "x", "y", "z">>

LowerChar(c) ==
    IF \E i \in 1..26 : UpperChars[i] = c
      THEN LowerChars[CHOOSE i \in 1..26 : UpperChars[i] = c]
      ELSE c

\* String.prototype.toLowerCase
ToLowerCase(s) == [i \in 1..Len(s) |-> LowerChar(s[i])]

\* String.prototype.includes
Includes(s, sub) ==
    \E i \in 0..(Len(s) - Len(sub)) : SubSeq(s, i + 1, i + Len(sub)) = sub

LineTerminators == {"\n", "\r"}

\* One regular-expression atom against one character: "." is any character
\* but a line terminator, a letter matches itself in either case (flag i).
AtomMatches(p, c) ==
    IF p = "." THEN c \notin LineTerminators ELSE LowerChar(p) = LowerChar(c)

\* An unanchored match of the literal-with-dots pattern pat somewhere in s.
PatternFound(s, pat) ==
    \E i \in 0..(Len(s) - Len(pat)) :
        \A j \in 1..Len(pat) : AtomMatches(pat[j], s[i + j])

(***************************************************************************)
(* The relevance filter of a refresh (page.jsx 393-404).                   *)
(***************************************************************************)
aiTopics ==
    << <<"a", "i">>,
       <<"m", "a", "c", "h", "i", "n", "e", "-", "l", "e", "a", "r", "n", "i", "n", "g">>,
       <<"l", "l", "m">>,
       <<"a", "r", "t", "i", "f", "i", "c", "i", "a", "l", "-", "i", "n", "t", "e", "l", "l", "i", "g", "e", "n", "c", "e">>,
       <<"d", "e", "e", "p", "-", "l", "e", "a", "r", "n", "i", "n", "g">>,
       <<"n", "e", "u", "r", "a", "l", "-", "n", "e", "t", "w", "o", "r", "k">>,
       <<"t", "e", "n", "s", "o", "r", "f", "l", "o", "w">>,
       <<"p", "y", "t", "o", "r", "c", "h">>,
       <<"o", "p", "e", "n", "c", "v">> >>

\* The alternatives of /(ai|artificial|...|computer.vision|data.science)/i
aiPattern ==
    << <<"a", "i">>,
       <<"a", "r", "t", "i", "f", "i", "c", "i", "a", "l">>,
       <<"i", "n", "t", "e", "l", "l", "i", "g", "e", "n", "c", "e">>,
       <<"m", "a", "c", "h", "i", "n", "e">>,
       <<"l", "e", "a", "r", "n", "i", "n", "g">>,
       <<"n", "e", "u", "r", "a", "l">>,
       <<"d", "e", "e", "p">>,
       <<"m", "l">>,
       <<"n", "l", "p">>,
       <<"c", "o", "m", "p", "u", "t", "e", "r", ".", "v", "i", "s", "i", "o", "n">>,
       <<"d", "a", "t", "a", ".", "s", "c", "i", "e", "n", "c", "e">> >>

\* Mutant: the topic compared as it is written, without toLowerCase.
hasAITopicCaseSensitive(repo) ==
    LET topics == IF IsNull(repo.topics) THEN <<>> ELSE Get(repo.topics)
    IN  \E t \in 1..Len(topics) :
            \E a \in 1..Len(aiTopics) : Includes(topics[t], aiTopics[a])

\* topics.some(topic => aiTopics.some(aiTopic => topic.toLowerCase().includes(...)))
hasAITopic(repo) ==
    LET topics == IF IsNull(repo.topics) THEN <<>> ELSE Get(repo.topics)
    IN  \E t \in 1..Len(topics) :
            \E a \in 1..Len(aiTopics) :
                Includes(ToLowerCase(topics[t]), ToLowerCase(aiTopics[a]))

\* (repo.name + ' ' + (repo.description || '')).toLowerCase().match(/.../i)
nameOrDescHasAI(repo) ==
    LET desc == IF IsNull(repo.description) THEN <<>> ELSE Get(repo.description)
        text == ToLowerCase(repo.name \o <<" ">> \o desc)
    IN  \E p \in 1..Len(aiPattern) : PatternFound(text, aiPattern[p])

\* The predicate handed to repositories.filter
KeepsRepository(repo) ==
    (hasAITopic(repo) \/ nameOrDescHasAI(repo)) /\ repo.stargazers_count >= 0

(***************************************************************************)
(* Upstream search results the model draws from.  A record is never        *)
(* changed after the upstream sent it, and its id is unique, so sequences  *)
(* of records are kept as sequences of ids.                                *)
(***************************************************************************)
RepoVisionKit ==
    [id |-> 1,
     name |-> <<"v", "i", "s", "i", "o", "n", "-", "k", "i", "t">>,
     description |-> Null,
     stargazers_count |-> 50,
     topics |-> Some(<< <<"M", "a", "c", "h", "i", "n", "e", "-", "L", "e", "a", "r", "n", "i", "n", "g">> >>)]

RepoSynapse ==
    [id |-> 2,
     name |-> <<"s", "y", "n", "a", "p", "s", "e">>,
     description |-> Some(<<"N", "e", "u", "r", "a", "l", " ", "n", "e", "t", "s">>),
     stargazers_count |-> 10,
     topics |-> Null]

RepoWebapp ==
    [id |-> 3,
     name |-> <<"w", "e", "b", "a", "p", "p">>,
     description |-> Some(<<"s", "h", "o", "p">>),
     stargazers_count |-> 1000,
     topics |-> Some(<< <<"w", "e", "b">> >>)]

RepoMailer ==
    [id |-> 4,
     name |-> <<"h", "t", "m", "l", "-", "m", "a", "i", "l", "e", "r">>,
     description |-> Null,
     stargazers_count |-> 7,
     topics |-> Some(<< <<"e", "m", "a", "i", "l">> >>)]

RepoToolbox ==
    [id |-> 5,
     name |-> <<"t", "o", "o", "l", "b", "o", "x">>,
     description |-> Some(<<>>),
     stargazers_count |-> 0,
     topics |-> Some(<< <<"c", "l", "i">>,
                        <<"M", "A", "C", "H", "I", "N", "E", "-", "L", "E", "A", "R", "N", "I", "N", "G">> >>)]

RepoFastgrid ==
    [id |-> 6,
     name |-> <<"f", "a", "s", "t", "g", "r", "i", "d">>,
     description |-> Some(<<"a", " ", "N", "E", "U", "R", "A", "L", " ", "e", "n", "g", "i", "n", "e">>),
     stargazers_count |-> 10,
     topics |-> Some(<<>>)]

RepoNotes ==
    [id |-> 7,
     name |-> <<"n", "o", "t", "e", "s">>,
     description |-> Null,
     stargazers_count |-> 0,
     topics |-> Null]

\* The records by id.
Repository ==
    <<RepoVisionKit, RepoSynapse, RepoWebapp, RepoMailer, RepoToolbox,
      RepoFastgrid, RepoNotes>>

\* Mutant: the kept elements collected at the front of the result (unshift),
\* which reverses them.
filteredRepositoriesReversed(items) ==
    LET kept == SelectSeq(items, LAMBDA id : KeepsRepository(Repository[id]))
    IN  [i \in 1..Len(kept) |-> kept[Len(kept) + 1 - i]]

\* repositories.filter(...): the kept elements, in their order.
filteredRepositories(items) ==
    SelectSeq(items, LAMBDA id : KeepsRepository(Repository[id]))

\* The items arrays of the parsed upstream bodies, sorted by stars descending
\* as the query asks (sort=stars&order=desc).
ItemLists ==
    { <<RepoWebapp.id, RepoVisionKit.id, RepoSynapse.id, RepoMailer.id>>,
      <<RepoWebapp.id>> }

\* The result sets the filter is studied on: every sequence of at most
\* MaxItems distinct records in the order the query asks for (stars
\* descending, equal counts in either order).
SearchResults ==
    UNION {{l \in [1..n -> DOMAIN Repository] :
               /\ \A i, j \in 1..n : i # j => l[i] # l[j]
               /\ \A i \in 1..(n - 1) :
                     Repository[l[i]].stargazers_count
                        >= Repository[l[i + 1]].stargazers_count}
           : n \in 0..MaxItems}

\* filteredRepositories of each items array the upstream can send.
Filtered == [items \in ItemLists |-> filteredRepositories(items)]

\* What response.json() can resolve to: a body with an items array, or a body
\* without one (an error document, null).
Bodies == {[items |-> Some(l)] : l \in ItemLists} \cup {[items |-> Null]}

\* The upstream statuses the handler distinguishes: ok, rate limit, other.
Statuses == {200, 403, 500}

(***************************************************************************)
(* Request URLs.  params is the query string as a sequence of              *)
(* <<key, value>>; valid = FALSE is a request.url that new URL() rejects.  *)
(***************************************************************************)
Urls ==
    { [valid |-> TRUE, params |-> <<>>],
      [valid |-> TRUE, params |-> << <<"t", "1700000000000">> >>],
      [valid |-> TRUE, params |-> << <<"t", "">> >>],
      [valid |-> FALSE, params |-> <<>>] }

\* url.searchParams.has(name)
SearchParamsHas(url, name) ==
    \E i \in 1..Len(url.params) : url.params[i][1] = name

\* Mutant: the marker read by its value (searchParams.get), so that an empty
\* value does not count.
ForceRefreshByValue(url) ==
    url.valid /\ \E i \in 1..Len(url.params) :
                    url.params[i][1] = "t" /\ url.params[i][2] # ""

\* page.jsx 293-300: forceRefresh, FALSE when new URL(request.url) throws.
ForceRefresh(url) ==
    IF url.valid THEN SearchParamsHas(url, "t") ELSE FALSE

(***************************************************************************)
(* Time.                                                                   *)
(***************************************************************************)
CACHE_DURATION == 5 * 60 * 1000

\* Math.round(ms / 1000): to the nearest integer, halves up.
RoundSeconds(ms) == (ms + 500) \div 1000

\* new Date(ms).toISOString(): the UTC fields of the instant, to the
\* millisecond (the day is kept as a day number since the epoch).
ToISOString(ms) ==
    [day |-> ms \div 86400000,
     hh |-> (ms % 86400000) \div 3600000,
     mm |-> (ms % 3600000) \div 60000,
     ss |-> (ms % 60000) \div 1000,
     sss |-> ms % 1000]

(***************************************************************************)
(* Values thrown inside the handler.  message is the text of error.message *)
(* as <<text>> or <<text, number>> for a template string.                  *)
(***************************************************************************)
\* fetch(url) rejecting: the transport failed.
FetchRejections == {[isError |-> TRUE, message |-> <<"fetch failed">>]}

\* response.text() rejecting: the error body could not be read.
TextRejections == {[isError |-> TRUE, message |-> <<"terminated">>]}

\* response.json() rejecting: the body is not JSON.
JsonRejections ==
    {[isError |-> TRUE, message |-> <<"Unexpected token < in JSON at position 0">>]}

\* data.items.length (line 386) on a body without items.
ItemsTypeError ==
    [isError |-> TRUE,
     message |-> <<"Cannot read properties of undefined (reading 'length')">>]

\* page.jsx 375-380: the error thrown for a non-2xx status with no cached data.
StatusError(status) ==
    IF status = 403
      THEN [isError |-> TRUE,
            message |-> <<"GitHub API rate limit exceeded. Please try again later.">>]
      ELSE [isError |-> TRUE, message |-> <<"GitHub API error: ", status>>]

\* response.ok
Ok(status) == status >= 200 /\ status <= 299

(***************************************************************************)
(* The cache slot (page.jsx 276-282) and what the handlers do with it.     *)
(***************************************************************************)
EmptyCache == [data |-> Null, lastFetch |-> 0]

\* Mutant: the subtraction the wrong way round.
CacheAgeReversed(c, t) == c.lastFetch - t

\* page.jsx 303
CacheAge(c, t) == t - c.lastFetch

\* Mutant: the age in milliseconds compared with the window in seconds.
isCacheValidSeconds(c, cacheAge) ==
    Truthy(c.data) /\ cacheAge < CACHE_DURATION \div 1000

\* Mutant: a stored sequence without records does not count as data.
isCacheValidNonEmpty(c, cacheAge) ==
    Truthy(c.data) /\ Get(c.data) # <<>> /\ cacheAge < CACHE_DURATION

\* Mutant: a slot exactly as old as the window still counts as valid.
isCacheValidInclusive(c, cacheAge) ==
    Truthy(c.data) /\ cacheAge <= CACHE_DURATION

\* page.jsx 304: cache.data && cacheAge < CACHE_DURATION
isCacheValid(c, cacheAge) == Truthy(c.data) /\ cacheAge < CACHE_DURATION

\* Mutant: the new records appended to the stored ones.
CacheWriteAppend(c, filtered, t) ==
    [data |-> Some(IF Truthy(c.data) THEN Get(c.data) \o filtered ELSE filtered),
     lastFetch |-> t]

\* Mutant: the records stored, the timestamp left as it was.
CacheWriteDataOnly(c, filtered, t) ==
    [data |-> Some(filtered), lastFetch |-> c.lastFetch]

\* Mutant: a refresh that began before the stored one does not overwrite it.
CacheWriteIfNewer(c, filtered, t) ==
    IF t >= c.lastFetch THEN [data |-> Some(filtered), lastFetch |-> t] ELSE c

\* Mutant: the age of the overwritten slot stored in place of the time.
CacheWriteAge(c, filtered, t) ==
    [data |-> Some(filtered), lastFetch |-> t - c.lastFetch]

\* Mutant: the expiry time stored in place of the fetch time.
CacheWriteExpiry(c, filtered, t) ==
    [data |-> Some(filtered), lastFetch |-> t + CACHE_DURATION]

\* page.jsx 406-408: both fields assigned with no await between them; c is
\* the slot being overwritten.
CacheWrite(c, filtered, t) == [data |-> Some(filtered), lastFetch |-> t]

CacheControl == "public, s-maxage=300, stale-while-revalidate=600"

\* page.jsx 309-318
HitResponse(c, cacheAge) ==
    [status |-> 200,
     repositories |-> Get(c.data),
     cached_at |-> Some(ToISOString(c.lastFetch)),
     total_count |-> Len(Get(c.data)),
     cache_age_seconds |-> Some(RoundSeconds(cacheAge)),
     warning |-> Null,
     error |-> Null,
     cacheControl |-> Some(CacheControl)]

\* page.jsx 366-372 and 431-437: no headers are passed.
StaleResponse(c, cacheAge, warning) ==
    [status |-> 200,
     repositories |-> Get(c.data),
     cached_at |-> Some(ToISOString(c.lastFetch)),
     total_count |-> Len(Get(c.data)),
     cache_age_seconds |-> Some(RoundSeconds(cacheAge)),
     warning |-> Some(warning),
     error |-> Null,
     cacheControl |-> Null]

\* page.jsx 413-422
FreshResponse(filtered, t) ==
    [status |-> 200,
     repositories |-> filtered,
     cached_at |-> Some(ToISOString(t)),
     total_count |-> Len(filtered),
     cache_age_seconds |-> Some(0),
     warning |-> Null,
     error |-> Null,
     cacheControl |-> Some(CacheControl)]

\* Mutant: the error body sent without the status option.
ErrorResponseDefaultStatus(thrown) ==
    [status |-> 200,
     repositories |-> <<>>,
     cached_at |-> Null,
     total_count |-> 0,
     cache_age_seconds |-> Null,
     warning |-> Null,
     error |-> Some(thrown.message),
     cacheControl |-> Null]

\* page.jsx 441-448
ErrorResponse(thrown) ==
    [status |-> 500,
     repositories |-> <<>>,
     cached_at |-> Null,
     total_count |-> 0,
     cache_age_seconds |-> Null,
     warning |-> Null,
     error |-> Some(IF thrown.isError
                      THEN thrown.message
                      ELSE <<"Failed to fetch repositories">>),
     cacheControl |-> Null]

\* page.jsx 457-474
OptionsResponse(c, t) ==
    LET cacheAge == IF c.lastFetch # 0 THEN t - c.lastFetch ELSE 0
    IN  [status |-> 200,
         cache_duration_minutes |-> CACHE_DURATION \div (60 * 1000),
         has_data |-> Truthy(c.data),
         last_fetch |-> IF c.lastFetch # 0
                          THEN Some(ToISOString(c.lastFetch)) ELSE Null,
         age_seconds |-> IF c.lastFetch # 0 THEN RoundSeconds(cacheAge) ELSE 0,
         is_valid |-> IF Truthy(c.data)
                        THEN Some(cacheAge < CACHE_DURATION) ELSE Null]

(***************************************************************************)
(* State.                                                                  *)
(***************************************************************************)
VARIABLES
    now,        \* Date.now()
    cache,      \* the module-level cache object
    req,        \* the handlers in flight: where each stands, and its locals
    sent,       \* the response sent by the step just taken, Null if none
    refreshed,  \* history: what the last successful refresh stored
    arg,        \* the input of the function under study, Null if none
    result,     \* what the function made of arg, Null until applied
    sumReq,     \* the summarize handlers in flight
    sumCall,    \* the provider call issued by the step just taken, or Null
    sumLog,     \* the server log lines written by the step just taken
    sumSent,    \* the summarize response sent by the step just taken, or Null
    localStorage,   \* the browser's store: ai_api_key, ai_provider
    home,       \* the state of the Home component
    modal,      \* the state of the AIConfigModal component
    inflight,   \* the calls of the page that are awaiting their response
    event,      \* what the step just taken did that can be seen from outside
    lastSave    \* history: what was entered at the last save that wrote

\* The state of the trends route, and the state of the studies of single
\* functions, which the trends route leaves alone.
trendsVars == <<now, cache, req, sent, refreshed>>

functionVars == <<arg, result>>

summarizeVars == <<sumReq, sumCall, sumLog, sumSent>>

pageVars == <<localStorage, home, modal, inflight, event, lastSave>>

restOfSystem == <<functionVars, summarizeVars, pageVars>>

vars == <<trendsVars, restOfSystem>>

\* No function is under study.
NoFunction == arg = Null /\ result = Null

\* A summarize slot with no handler in it: nothing of a request is kept.
IdleSummarize == [pc |-> "idle", body |-> Null, contacted |-> <<>>]

\* The summarize route when the process has started.
SummarizeStart ==
    /\ sumReq = [r \in Requests |-> IdleSummarize]
    /\ sumCall = Null
    /\ sumLog = <<>>
    /\ sumSent = Null

CallSlots == 1..MaxCalls

\* Nothing to be seen.
NoEvent == [click |-> Null, invoked |-> <<>>, posted |-> Null, alert |-> Null]

\* The page when Home has mounted (page.jsx 27-39, AIConfigModal.jsx 19-22):
\* its first fetch of the trends is in flight, the store is empty.
PageStart ==
    /\ localStorage = [ai_api_key |-> Null, ai_provider |-> Null]
    /\ home = [repositories |-> <<>>, loading |-> TRUE, refreshing |-> FALSE,
               error |-> Null, showAIConfig |-> FALSE, summarizingRepo |-> Null]
    /\ modal = [provider |-> "openai", apiKey |-> <<>>, isSaving |-> FALSE]
    /\ inflight = [c \in CallSlots |->
                      IF c = 1 THEN Some([kind |-> "trends", isRefresh |-> FALSE])
                               ELSE Null]
    /\ event = NoEvent
    /\ lastSave = Null

\* A request slot with no handler suspended in it.  A local of a handler is
\* kept for as long as the handler can still read it.
IdleRequest ==
    [pc |-> "idle", url |-> Null, forceRefresh |-> FALSE, now |-> 0,
     cacheAge |-> 0, status |-> Null, calls |-> 0]

\* The trends route when the process has started.
ProcessStart ==
    /\ now = StartTime
    /\ cache = EmptyCache
    /\ req = [r \in Requests |-> IdleRequest]
    /\ sent = Null
    /\ refreshed = Null

Init == ProcessStart /\ NoFunction /\ SummarizeStart /\ PageStart

\* The handler of request r returns response after calls upstream calls; ret
\* names the return statement.
Return(r, calls, ret, response) ==
    /\ req' = [req EXCEPT ![r] = IdleRequest]
    /\ sent' = Some([url |-> req[r].url, calls |-> calls, ret |-> ret,
                     response |-> response])

\* Mutant: a catch block that falls back only on a stored sequence that has
\* records in it.
CatchFallbackWhenNonEmpty(r, thrown) ==
    IF Truthy(cache.data) /\ Get(cache.data) # <<>>
      THEN Return(r, req[r].calls, "staleCatch",
                  StaleResponse(cache, CacheAge(cache, now),
                                "Using stale cached data due to API error"))
      ELSE Return(r, req[r].calls, "error", ErrorResponse(thrown))

\* Mutant: a catch block that never falls back on the stored data.
CatchWithoutFallback(r, thrown) ==
    Return(r, req[r].calls, "error", ErrorResponse(thrown))

\* page.jsx 424-449: the catch block, which reads the slot and the clock anew.
Catch(r, thrown) ==
    IF Truthy(cache.data)
      THEN Return(r, req[r].calls, "staleCatch",
                  StaleResponse(cache, CacheAge(cache, now),
                                "Using stale cached data due to API error"))
      ELSE Return(r, req[r].calls, "error", ErrorResponse(thrown))

\* page.jsx 290-351: a request arrives; the handler runs to its first await
\* (the upstream fetch) or returns the cached data.
GET(r, url) ==
    /\ req[r].pc = "idle"
    /\ LET forceRefresh == ForceRefresh(url)
           cacheAge == CacheAge(cache, now)
       IN  IF ~forceRefresh /\ isCacheValid(cache, cacheAge)
             THEN /\ req' = req
                  /\ sent' = Some([url |-> Some(url), calls |-> 0, ret |-> "hit",
                                   response |-> HitResponse(cache, cacheAge)])
             ELSE /\ req' = [req EXCEPT ![r] =
                       [pc |-> "awaitFetch", url |-> Some(url),
                        forceRefresh |-> forceRefresh, now |-> now,
                        cacheAge |-> cacheAge, status |-> Null, calls |-> 1]]
                  /\ sent' = Null
    /\ UNCHANGED <<now, cache, refreshed>>
    /\ UNCHANGED restOfSystem

\* page.jsx 346-356, 384: the upstream answers with a status; the handler
\* goes on to read the body: text() of an error (after which now is not read
\* again), json() of a result (after which cacheAge is not read again).
FetchResolved(r, status) ==
    /\ req[r].pc = "awaitFetch"
    /\ req' = [req EXCEPT ![r] =
          IF Ok(status)
            THEN [@ EXCEPT !.pc = "awaitJson", !.url = Null,
                           !.forceRefresh = FALSE, !.cacheAge = 0]
            ELSE [@ EXCEPT !.pc = "awaitText", !.url = Null,
                           !.forceRefresh = FALSE, !.now = 0,
                           !.status = Some(status)]]
    /\ sent' = Null
    /\ UNCHANGED <<now, cache, refreshed>>
    /\ UNCHANGED restOfSystem

\* page.jsx 346, 424: the upstream call fails in transport.
FetchRejected(r, thrown) ==
    /\ req[r].pc = "awaitFetch"
    /\ Catch(r, thrown)
    /\ UNCHANGED <<now, cache, refreshed>>
    /\ UNCHANGED restOfSystem

\* page.jsx 356-381: the error body was read.
TextResolved(r) ==
    /\ req[r].pc = "awaitText"
    /\ IF Truthy(cache.data)
         THEN Return(r, req[r].calls, "staleStatus",
                     StaleResponse(cache, req[r].cacheAge,
                                   "Using stale cached data due to GitHub API error"))
         ELSE Catch(r, StatusError(Get(req[r].status)))
    /\ UNCHANGED <<now, cache, refreshed>>
    /\ UNCHANGED restOfSystem

\* page.jsx 356, 424: reading the error body fails.
TextRejected(r, thrown) ==
    /\ req[r].pc = "awaitText"
    /\ Catch(r, thrown)
    /\ UNCHANGED <<now, cache, refreshed>>
    /\ UNCHANGED restOfSystem

\* Mutant: the slot's timestamp set before the body is looked at.
JsonResolvedStampFirst(r, body) ==
    /\ req[r].pc = "awaitJson"
    /\ IF IsNull(body.items)
         THEN /\ Catch(r, ItemsTypeError)
              /\ cache' = [cache EXCEPT !.lastFetch = req[r].now]
              /\ UNCHANGED refreshed
         ELSE LET filtered == Filtered[Get(body.items)]
              IN  /\ cache' = CacheWrite(cache, filtered, req[r].now)
                  /\ refreshed' = Some([data |-> filtered, at |-> req[r].now])
                  /\ Return(r, req[r].calls, "refreshed",
                            FreshResponse(filtered, req[r].now))
    /\ UNCHANGED now
    /\ UNCHANGED restOfSystem

\* page.jsx 384-422: the body was parsed; filter, store, answer.
JsonResolved(r, body) ==
    /\ req[r].pc = "awaitJson"
    /\ IF IsNull(body.items)
         THEN /\ Catch(r, ItemsTypeError)
              /\ UNCHANGED <<cache, refreshed>>
         ELSE LET filtered == Filtered[Get(body.items)]
              IN  /\ cache' = CacheWrite(cache, filtered, req[r].now)
                  /\ refreshed' = Some([data |-> filtered, at |-> req[r].now])
                  /\ Return(r, req[r].calls, "refreshed",
                            FreshResponse(filtered, req[r].now))
    /\ UNCHANGED now
    /\ UNCHANGED restOfSystem

\* Mutant: the body parsed outside the try block, so that the exception
\* leaves the handler.
JsonRejectedUnhandled(r, thrown) ==
    /\ req[r].pc = "awaitJson"
    /\ Return(r, req[r].calls, "unhandled", ErrorResponse(thrown))
    /\ UNCHANGED <<now, cache, refreshed>>
    /\ UNCHANGED restOfSystem

\* page.jsx 384, 424: the body is not JSON.
JsonRejected(r, thrown) ==
    /\ req[r].pc = "awaitJson"
    /\ Catch(r, thrown)
    /\ UNCHANGED <<now, cache, refreshed>>
    /\ UNCHANGED restOfSystem

\* page.jsx 457-474: the diagnostic status call; it has no await.
OPTIONS ==
    /\ sent' = Some([url |-> Null, calls |-> 0,
                     ret |-> "options",
                     response |-> OptionsResponse(cache, now)])
    /\ UNCHANGED <<now, cache, req, refreshed>>
    /\ UNCHANGED restOfSystem

\* Time passes.
Tick(t) ==
    /\ t > now
    /\ now' = t
    /\ sent' = Null
    /\ UNCHANGED <<cache, req, refreshed>>
    /\ UNCHANGED restOfSystem

Next ==
    \/ \E r \in Requests, url \in Urls : GET(r, url)
    \/ \E r \in Requests, status \in Statuses : FetchResolved(r, status)
    \/ \E r \in Requests, thrown \in FetchRejections : FetchRejected(r, thrown)
    \/ \E r \in Requests : TextResolved(r)
    \/ \E r \in Requests, thrown \in TextRejections : TextRejected(r, thrown)
    \/ \E r \in Requests, body \in Bodies : JsonResolved(r, body)
    \/ \E r \in Requests, thrown \in JsonRejections : JsonRejected(r, thrown)
    \/ OPTIONS
    \/ \E t \in Clock : Tick(t)

Spec == Init /\ [][Next]_vars

\* The trends route when every upstream call in the end returns or fails,
\* and so does every reading of a body (page.jsx 346, 356, 384).
FairSpec ==
    /\ Init
    /\ [][Next]_vars
    /\ \A r \in Requests :
          /\ WF_vars((\E status \in Statuses : FetchResolved(r, status))
                        \/ (\E thrown \in FetchRejections : FetchRejected(r, thrown)))
          /\ WF_vars(TextResolved(r)
                        \/ (\E thrown \in TextRejections : TextRejected(r, thrown)))
          /\ WF_vars((\E body \in Bodies : JsonResolved(r, body))
                        \/ (\E thrown \in JsonRejections : JsonRejected(r, thrown)))

\* The trends route when no request carries the parameter t.
PlainNext ==
    \/ \E r \in Requests, url \in {u \in Urls : ~SearchParamsHas(u, "t")} :
          GET(r, url)
    \/ \E r \in Requests, status \in Statuses : FetchResolved(r, status)
    \/ \E r \in Requests, thrown \in FetchRejections : FetchRejected(r, thrown)
    \/ \E r \in Requests : TextResolved(r)
    \/ \E r \in Requests, thrown \in TextRejections : TextRejected(r, thrown)
    \/ \E r \in Requests, body \in Bodies : JsonResolved(r, body)
    \/ \E r \in Requests, thrown \in JsonRejections : JsonRejected(r, thrown)
    \/ OPTIONS
    \/ \E t \in Clock : Tick(t)

PlainSpec == Init /\ [][PlainNext]_vars

(***************************************************************************)
(* The relevance filter on its own: a result set arrives from the upstream *)
(* and is filtered (page.jsx 389-404).                                     *)
(***************************************************************************)
FilterInit ==
    /\ ProcessStart
    /\ arg \in {Some(items) : items \in SearchResults}
    /\ result = Null
    /\ SummarizeStart
    /\ PageStart

Filter ==
    /\ Truthy(arg)
    /\ IsNull(result)
    /\ result' = Some(filteredRepositories(Get(arg)))
    /\ UNCHANGED <<arg, trendsVars, summarizeVars, pageVars>>

FilterNext == Filter

FilterSpec == FilterInit /\ [][FilterNext]_vars

(***************************************************************************)
(* The Date object (page.jsx 324-326).  A time value is kept as its day    *)
(* number since the epoch and its milliseconds within that day, the two    *)
(* parts ECMAScript's date algorithms work on (Day(t), TimeWithinDay(t)).  *)
(***************************************************************************)
msPerMinute == 60 * 1000

msPerHour == 60 * msPerMinute

msPerDay == 24 * msPerHour

TimeValue(day, ms) == [day |-> day, ms |-> ms]

\* t + delta, for a delta of less than a day either way.
AddMs(t, delta) ==
    LET total == t.ms + delta
    IN  [day |-> t.day + total \div msPerDay, ms |-> total % msPerDay]

Before(t, u) == t.day < u.day \/ (t.day = u.day /\ t.ms < u.ms)

\* The years the calendar is worked out for.
Years == 1969..2027

IsLeapYear(y) == (y % 4 = 0 /\ y % 100 # 0) \/ y % 400 = 0

\* ECMAScript DayFromYear: the day number of 1 January of year y.
DayFromYear(y) ==
    365 * (y - 1970) + (y - 1969) \div 4 - (y - 1901) \div 100
        + (y - 1601) \div 400

\* ECMAScript YearFromTime, MonthFromTime (0 is January) and DateFromTime.
YearFromDay(day) ==
    CHOOSE y \in Years : DayFromYear(y) <= day /\ day < DayFromYear(y + 1)

DaysInMonth(y) ==
    <<31, IF IsLeapYear(y) THEN 29 ELSE 28, 31, 30, 31, 30, 31, 31, 30, 31,
      30, 31>>

\* The number of days of year y before its month m (0 is January).
DaysBeforeMonth(y, m) ==
    LET upTo[k \in 0..12] ==
            IF k = 0 THEN 0 ELSE upTo[k - 1] + DaysInMonth(y)[k]
    IN  upTo[m]

DayWithinYear(day) == day - DayFromYear(YearFromDay(day))

MonthFromDay(day) ==
    LET y == YearFromDay(day)
    IN  CHOOSE m \in 0..11 :
            /\ DaysBeforeMonth(y, m) <= DayWithinYear(day)
            /\ DayWithinYear(day) < DaysBeforeMonth(y, m + 1)

DateFromDay(day) ==
    DayWithinYear(day) - DaysBeforeMonth(YearFromDay(day), MonthFromDay(day)) + 1

\* ECMAScript MakeDay for a month in 0..11: date may be 0 or negative, and
\* then counts back into the months before.
MakeDay(year, month, date) ==
    DayFromYear(year) + DaysBeforeMonth(year, month) + date - 1

\* The time zones of the process: the offset from UTC in standard time and
\* in daylight time, and the UTC instants of 2026 between which daylight
\* time is in force (none when from = to).
UTCZone ==
    [name |-> "UTC", standard |-> 0, daylight |-> 0,
     from |-> TimeValue(MakeDay(2026, 0, 1), 0),
     to |-> TimeValue(MakeDay(2026, 0, 1), 0)]

Kolkata ==
    [name |-> "Asia/Kolkata",
     standard |-> 5 * msPerHour + 30 * msPerMinute,
     daylight |-> 5 * msPerHour + 30 * msPerMinute,
     from |-> TimeValue(MakeDay(2026, 0, 1), 0),
     to |-> TimeValue(MakeDay(2026, 0, 1), 0)]

NewYork ==
    [name |-> "America/New_York",
     standard |-> 0 - 5 * msPerHour,
     daylight |-> 0 - 4 * msPerHour,
     from |-> TimeValue(MakeDay(2026, 2, 8), 7 * msPerHour),
     to |-> TimeValue(MakeDay(2026, 10, 1), 6 * msPerHour)]

Jerusalem ==
    [name |-> "Asia/Jerusalem",
     standard |-> 2 * msPerHour,
     daylight |-> 3 * msPerHour,
     from |-> TimeValue(MakeDay(2026, 2, 27), 0),
     to |-> TimeValue(MakeDay(2026, 9, 24), 23 * msPerHour)]

TimeZones == {UTCZone, Kolkata, NewYork, Jerusalem}

\* ECMAScript LocalTZA(t, isUTC): the offset in force at the UTC time t, or
\* at the local time t; a local time that is skipped or repeated at a
\* transition is read with the offset in force before the transition.
LocalTZA(tz, t, isUTC) ==
    IF isUTC
      THEN IF ~Before(t, tz.from) /\ Before(t, tz.to)
             THEN tz.daylight ELSE tz.standard
      ELSE IF /\ ~Before(t, AddMs(tz.from, tz.daylight))
              /\ Before(t, AddMs(tz.to, tz.daylight))
             THEN tz.daylight ELSE tz.standard

LocalTime(tz, t) == AddMs(t, LocalTZA(tz, t, TRUE))

UTC(tz, t) == AddMs(t, 0 - LocalTZA(tz, t, FALSE))

\* Date.prototype.getDate: the day of the month in local time.
getDate(tz, t) == DateFromDay(LocalTime(tz, t).day)

\* Date.prototype.setDate: the day of the month of the local time replaced,
\* the local time of day kept, and the result taken back to UTC.
setDate(tz, t, dt) ==
    LET local == LocalTime(tz, t)
        newDate == TimeValue(MakeDay(YearFromDay(local.day),
                                     MonthFromDay(local.day), dt), local.ms)
    IN  UTC(tz, newDate)

DigitChars == <<"0", "1", "2", "3", "4", "5", "6", "7", "8", "9">>

\* n in decimal, zero-padded to width digits.
Padded(n, width) ==
    [i \in 1..width |-> DigitChars[((n \div 10 ^ (width - i)) % 10) + 1]]

\* toISOString().split('T')[0]: YYYY-MM-DD of the UTC fields.
ISODate(t) ==
    Padded(YearFromDay(t.day), 4) \o <<"-">>
        \o Padded(MonthFromDay(t.day) + 1, 2) \o <<"-">>
        \o Padded(DateFromDay(t.day), 2)

\* page.jsx 324-326
dateString(tz, t) == ISODate(setDate(tz, t, getDate(tz, t) - 7))

\* page.jsx 336: `topic:ai created:>${dateString}`
query(tz, t) ==
    <<"t", "o", "p", "i", "c", ":", "a", "i", " ", "c", "r", "e", "a", "t",
      "e", "d", ":", ">">> \o dateString(tz, t)

(***************************************************************************)
(* The upstream query on its own: at a time T, in a process of some time   *)
(* zone, the query of a refresh is built.                                  *)
(***************************************************************************)
\* The UTC days of the times studied, <<year, month (0 is January), date>>:
\* across the ends of February, of a month of 31 days, of the year, and
\* across the two transitions of 2026; outside 2026, days of winter only.
CutoffDays ==
    { <<1970, 0, 1>>, <<2024, 2, 3>>, <<2025, 2, 3>>, <<2026, 0, 1>>,
      <<2026, 0, 7>>, <<2026, 0, 8>>, <<2026, 2, 7>>, <<2026, 2, 14>>,
      <<2026, 2, 30>>, <<2026, 4, 5>>, <<2026, 7, 1>>, <<2026, 9, 28>>,
      <<2026, 10, 1>>, <<2026, 10, 8>> }

\* The times of day studied, in minutes after midnight UTC.
CutoffMinutes == {30, 12 * 60, 23 * 60 + 30}

CutoffTimes ==
    {TimeValue(MakeDay(d[1], d[2], d[3]), m * msPerMinute) :
        d \in CutoffDays, m \in CutoffMinutes}

QueryInit ==
    /\ ProcessStart
    /\ arg \in {Some([date |-> t, tz |-> tz]) : t \in CutoffTimes, tz \in TimeZones}
    /\ result = Null
    /\ SummarizeStart
    /\ PageStart

BuildQuery ==
    /\ Truthy(arg)
    /\ IsNull(result)
    /\ result' = Some(query(Get(arg).tz, Get(arg).date))
    /\ UNCHANGED <<arg, trendsVars, summarizeVars, pageVars>>

QueryNext == BuildQuery

QuerySpec == QueryInit /\ [][QueryNext]_vars

(***************************************************************************)
(* POST /api/summarize.  The route file (app/api/summarize/route.ts) is    *)
(* not among the sources; its requests, responses and provider settings    *)
(* are those declared in types/index.js and in the design document, and    *)
(* its steps are those of the specification of the summarize component:    *)
(* validate, dispatch to the provider bound to the selector, answer.       *)
(***************************************************************************)
\* types/index.js 37: the supported providers.
LLMProvider == {"openai", "groq"}

\* The settings of each provider (design document, LLM API Integration).
LLMServiceConfig ==
    [openai |-> [endpoint |-> "https://api.openai.com/v1/chat/completions",
                 model |-> "gpt-3.5-turbo"],
     groq |-> [endpoint |-> "https://api.groq.com/openai/v1/chat/completions",
               model |-> "mixtral-8x7b-32768"]]

SystemPrompt ==
    "Summarize this GitHub repository in exactly 3 sentences. Focus on what it does, its key features, and its target use case."

\* The credentials callers submit.
ApiKeys == {"sk-1", "gsk-2"}

\* The request bodies: each field absent, empty or filled; the selector may
\* also be a value outside the supported ones.
SummarizeBodies ==
    [text : {Null, Some(""), Some("vision-kit: No description")},
     apiKey : {Null, Some("")} \cup {Some(k) : k \in ApiKeys},
     provider : {Null, Some(""), Some("openai"), Some("groq"), Some("anthropic")}]

\* A field that is present and not empty.
Filled(field) == Truthy(field) /\ Get(field) # ""

\* Mutant: a validation that forgets the credential.
IsValidSummarizeRequestWithoutKey(body) ==
    /\ Filled(body.text)
    /\ Filled(body.provider)
    /\ Get(body.provider) \in LLMProvider

\* The validation of a request.
IsValidSummarizeRequest(body) ==
    /\ Filled(body.text)
    /\ Filled(body.apiKey)
    /\ Filled(body.provider)
    /\ Get(body.provider) \in LLMProvider

\* Mutant: every request sent to the first provider's endpoint.
ProviderConfigFirst(provider) == LLMServiceConfig["openai"]

\* The settings bound to a selector; a selector outside the supported ones
\* has none.
ProviderConfig(provider) ==
    IF provider \in LLMProvider THEN LLMServiceConfig[provider] ELSE Null

\* The chat completion request issued to the provider.
ProviderCall(body) ==
    LET config == ProviderConfig(Get(body.provider))
    IN  [endpoint |-> config.endpoint,
         authorization |-> body.apiKey,
         model |-> config.model,
         system |-> SystemPrompt,
         user |-> body.text]

\* What the provider can answer: a status and the text of its message.
ProviderStatuses == {200, 401, 429}

Summaries == {"It detects objects. It runs on the edge. It is for robotics."}

\* The statuses a provider that cannot be reached is reported with.
UnreachableStatuses == {502, 504}

\* types/index.js 72-79
SummarizeResponse(body, summary, t) ==
    [status |-> 200,
     summary |-> Some(summary),
     provider |-> body.provider,
     timestamp |-> ToISOString(t),
     error |-> Null,
     code |-> Null]

\* types/index.js 81-90; message is the text as a tuple of its parts.
SummarizeErrorResponse(status, code, message, t) ==
    [status |-> status,
     summary |-> Null,
     provider |-> Null,
     timestamp |-> ToISOString(t),
     error |-> Some(message),
     code |-> Some(code)]

ValidationError(body, t) ==
    SummarizeErrorResponse(400, "VALIDATION_ERROR",
        IF ~Filled(body.text) THEN <<"text is required">>
        ELSE IF ~Filled(body.apiKey) THEN <<"apiKey is required">>
        ELSE IF ~Filled(body.provider) THEN <<"provider is required">>
        ELSE <<"Unsupported provider: ", Get(body.provider)>>, t)

\* Mutant: the failed request quoted in the error message.
ProviderErrorQuotingRequest(body, status, t) ==
    SummarizeErrorResponse(status, "PROVIDER_ERROR",
        <<"Provider request failed: ", ToString(status), Get(body.apiKey)>>, t)

ProviderError(body, status, t) ==
    SummarizeErrorResponse(status, "PROVIDER_ERROR",
        <<"Provider request failed: ", ToString(status)>>, t)

\* The handler in slot r returns response.
SummarizeReturn(r, body, contacted, response) ==
    /\ sumReq' = [sumReq EXCEPT ![r] = IdleSummarize]
    /\ sumSent' = Some([body |-> body, contacted |-> contacted,
                        response |-> response])

\* A request arrives: it is validated and, when valid, dispatched.
POST(r, body) ==
    /\ sumReq[r].pc = "idle"
    /\ IF IsValidSummarizeRequest(body)
         THEN /\ sumReq' = [sumReq EXCEPT ![r] =
                    [pc |-> "awaitProvider", body |-> Some(body),
                     contacted |-> <<ProviderCall(body).endpoint>>]]
              /\ sumCall' = Some(ProviderCall(body))
              /\ sumLog' = << <<"Summarizing with ", Get(body.provider)>> >>
              /\ sumSent' = Null
         ELSE /\ SummarizeReturn(r, body, <<>>, ValidationError(body, now))
              /\ sumCall' = Null
              /\ sumLog' = << <<"Invalid summarize request">> >>
    /\ UNCHANGED <<trendsVars, functionVars, pageVars>>

\* The provider answers.
ProviderResolved(r, status, summary) ==
    /\ sumReq[r].pc = "awaitProvider"
    /\ LET body == Get(sumReq[r].body)
       IN  IF Ok(status)
             THEN /\ SummarizeReturn(r, body, sumReq[r].contacted,
                                     SummarizeResponse(body, summary, now))
                  /\ sumLog' = <<>>
             ELSE /\ SummarizeReturn(r, body, sumReq[r].contacted,
                                     ProviderError(body, status, now))
                  /\ sumLog' = << <<"Provider error: ", ToString(status)>> >>
    /\ sumCall' = Null
    /\ UNCHANGED <<trendsVars, functionVars, pageVars>>

\* The provider cannot be reached.
ProviderRejected(r, status) ==
    /\ sumReq[r].pc = "awaitProvider"
    /\ SummarizeReturn(r, Get(sumReq[r].body), sumReq[r].contacted,
                       ProviderError(Get(sumReq[r].body), status, now))
    /\ sumLog' = << <<"Provider unreachable">> >>
    /\ sumCall' = Null
    /\ UNCHANGED <<trendsVars, functionVars, pageVars>>

SummarizeNext ==
    \/ \E r \in Requests, body \in SummarizeBodies : POST(r, body)
    \/ \E r \in Requests, status \in ProviderStatuses, summary \in Summaries :
          ProviderResolved(r, status, summary)
    \/ \E r \in Requests, status \in UnreachableStatuses :
          ProviderRejected(r, status)

SummarizeSpec == Init /\ [][SummarizeNext]_vars

(***************************************************************************)
(* The page: Home (page.jsx 24-247), AIConfigModal and NewsCard.  One      *)
(* action is one event handler, or the part of an async handler between    *)
(* two awaits.                                                             *)
(***************************************************************************)
\* String.prototype.trim
Trim(str) ==
    LET inside == {i \in DOMAIN str : str[i] \notin {" ", "\t", "\n", "\r"}}
    IN  IF inside = {}
          THEN <<>>
          ELSE SubSeq(str, CHOOSE i \in inside : \A j \in inside : i <= j,
                           CHOOSE i \in inside : \A j \in inside : i >= j)

\* What the user types into the key field.
KeyInputs ==
    { <<>>, <<" ">>, <<"s", "k", "-", "1">>,
      <<" ", "s", "k", "-", "1", " ">> }

\* AIConfigModal.jsx 112-114: the values of the select's options.
ProviderOptions == {"openai", "anthropic", "groq"}

\* localStorage.setItem succeeds, or throws (the store is full) at the
\* first or at the second of the two calls of handleSave.
StorageOutcomes == {"ok", "firstThrows", "secondThrows"}

\* The repositories on the page, and what /api/trends answers the page.
Cards == <<RepoVisionKit.id, RepoSynapse.id>>

TrendsOutcomes ==
    { [ok |-> TRUE, repositories |-> Some(Cards)],
      [ok |-> TRUE, repositories |-> Null],
      [ok |-> FALSE, repositories |-> Null] }

HasFreeCall == \E c \in CallSlots : IsNull(inflight[c])

FreeCall == CHOOSE c \in CallSlots : IsNull(inflight[c])

\* AIConfigModal.jsx 25-32: the effect that runs when isOpen becomes true.
Shown ==
    IF home.showAIConfig
      THEN modal
      ELSE [modal EXCEPT
              !.provider = IF Truthy(localStorage.ai_provider)
                             THEN Get(localStorage.ai_provider) ELSE "openai",
              !.apiKey = IF Truthy(localStorage.ai_api_key)
                           THEN Get(localStorage.ai_api_key) ELSE <<>>]

\* page.jsx 46-62: up to the await of the fetch.
fetchTrendingRepositories(isRefresh) ==
    /\ HasFreeCall
    /\ home' = [home EXCEPT !.refreshing = IF isRefresh THEN TRUE ELSE @,
                            !.loading = IF isRefresh THEN @ ELSE TRUE,
                            !.error = Null]
    /\ inflight' = [inflight EXCEPT ![FreeCall] =
                       Some([kind |-> "trends", isRefresh |-> isRefresh])]
    /\ event' = NoEvent
    /\ UNCHANGED <<localStorage, modal, lastSave>>

\* page.jsx 84-87, 200-204: the Refresh button, disabled while refreshing.
handleRefresh ==
    /\ ~home.refreshing
    /\ fetchTrendingRepositories(TRUE)
    /\ UNCHANGED <<trendsVars, functionVars, summarizeVars>>

\* page.jsx 157-168, 224: the Try Again button of the error state.
Retry ==
    /\ Truthy(home.error) /\ ~home.loading
    /\ fetchTrendingRepositories(FALSE)
    /\ UNCHANGED <<trendsVars, functionVars, summarizeVars>>

\* page.jsx 62-78: the answer to a fetch of the trends arrives.
TrendsResponded(c, outcome) ==
    /\ Truthy(inflight[c]) /\ Get(inflight[c]).kind = "trends"
    /\ home' = [home EXCEPT
          !.repositories = IF outcome.ok
                             THEN IF Truthy(outcome.repositories)
                                    THEN Get(outcome.repositories) ELSE <<>>
                             ELSE @,
          !.error = IF outcome.ok
                      THEN @ ELSE Some("Failed to fetch repositories: 500"),
          !.loading = FALSE,
          !.refreshing = FALSE]
    /\ inflight' = [inflight EXCEPT ![c] = Null]
    /\ event' = NoEvent
    /\ UNCHANGED <<localStorage, modal, lastSave>>
    /\ UNCHANGED <<trendsVars, functionVars, summarizeVars>>

\* page.jsx 212-218: the configuration button.
OpenConfig ==
    /\ home' = [home EXCEPT !.showAIConfig = TRUE]
    /\ modal' = Shown
    /\ event' = NoEvent
    /\ UNCHANGED <<localStorage, inflight, lastSave>>
    /\ UNCHANGED <<trendsVars, functionVars, summarizeVars>>

\* AIConfigModal.jsx 105-111: the select, disabled while saving.
setProvider(value) ==
    /\ home.showAIConfig /\ ~modal.isSaving
    /\ modal' = [modal EXCEPT !.provider = value]
    /\ event' = NoEvent
    /\ UNCHANGED <<localStorage, home, inflight, lastSave>>
    /\ UNCHANGED <<trendsVars, functionVars, summarizeVars>>

\* AIConfigModal.jsx 124-132: the key field, disabled while saving.
setApiKey(value) ==
    /\ home.showAIConfig /\ ~modal.isSaving
    /\ modal' = [modal EXCEPT !.apiKey = value]
    /\ event' = NoEvent
    /\ UNCHANGED <<localStorage, home, inflight, lastSave>>
    /\ UNCHANGED <<trendsVars, functionVars, summarizeVars>>

\* Mutant: the key stored as it was typed.
StoredKeyAsTyped(apiKey) == apiKey

\* AIConfigModal.jsx 48: the key as it is stored.
StoredKey(apiKey) == Trim(apiKey)

\* AIConfigModal.jsx 37-51, 54-59: the Save button, up to the await of the
\* delay, or through the catch when the store throws.
handleSave(outcome) ==
    /\ home.showAIConfig /\ ~modal.isSaving
    /\ IF Trim(modal.apiKey) = <<>>
         THEN /\ event' = [NoEvent EXCEPT !.alert = Some("Please enter an API key")]
              /\ UNCHANGED <<localStorage, modal, lastSave>>
         ELSE CASE outcome = "ok" ->
                     /\ localStorage' =
                           [ai_provider |-> Some(modal.provider),
                            ai_api_key |-> Some(StoredKey(modal.apiKey))]
                     /\ modal' = [modal EXCEPT !.isSaving = TRUE]
                     /\ lastSave' = Some([apiKey |-> modal.apiKey,
                                          provider |-> modal.provider,
                                          complete |-> TRUE])
                     /\ event' = NoEvent
                [] outcome = "secondThrows" ->
                     /\ localStorage' =
                           [localStorage EXCEPT !.ai_provider = Some(modal.provider)]
                     /\ lastSave' = Some([apiKey |-> modal.apiKey,
                                          provider |-> modal.provider,
                                          complete |-> FALSE])
                     /\ event' = [NoEvent EXCEPT
                                    !.alert = Some("Failed to save configuration")]
                     /\ UNCHANGED modal
                [] OTHER ->
                     /\ event' = [NoEvent EXCEPT
                                    !.alert = Some("Failed to save configuration")]
                     /\ UNCHANGED <<localStorage, modal, lastSave>>
    /\ UNCHANGED <<home, inflight>>
    /\ UNCHANGED <<trendsVars, functionVars, summarizeVars>>

\* AIConfigModal.jsx 51-58: the delay is over; the modal closes.
Saved ==
    /\ modal.isSaving
    /\ home' = [home EXCEPT !.showAIConfig = FALSE]
    /\ modal' = [modal EXCEPT !.isSaving = FALSE]
    /\ event' = NoEvent
    /\ UNCHANGED <<localStorage, inflight, lastSave>>
    /\ UNCHANGED <<trendsVars, functionVars, summarizeVars>>

\* AIConfigModal.jsx 65-69: Cancel, the close button, the backdrop.
handleClose ==
    /\ home.showAIConfig /\ ~modal.isSaving
    /\ home' = [home EXCEPT !.showAIConfig = FALSE]
    /\ event' = NoEvent
    /\ UNCHANGED <<localStorage, modal, inflight, lastSave>>
    /\ UNCHANGED <<trendsVars, functionVars, summarizeVars>>

\* page.jsx 227-237: the cards are on the page.
CardsShown == ~home.loading /\ IsNull(home.error) /\ home.repositories # <<>>

\* page.jsx 234: the isLoading prop of the card of a repository.
isLoading(card) == home.summarizingRepo = Some(ToString(card))

\* Mutant: the button never disabled.
disabledNever(loading) == FALSE

\* NewsCard 714-717: the disabled attribute of the summarize button.
disabled(loading) == loading

\* NewsCard 607-611: the onSummarize calls a click on the button makes.
handleSummarizeClick(card, loading) == IF ~loading THEN <<card>> ELSE <<>>

\* page.jsx 112-116: the body of the POST.
PostBody(card, apiKey, provider) ==
    [text |-> Repository[card].name \o <<":", " ">>
                 \o (IF Truthy(Repository[card].description)
                          /\ Get(Repository[card].description) # <<>>
                       THEN Get(Repository[card].description)
                       ELSE <<"N", "o", " ", "d", "e", "s", "c", "r", "i", "p",
                              "t", "i", "o", "n">>),
     apiKey |-> apiKey,
     provider |-> provider]

\* page.jsx 93-117: handleSummarize up to the await of the fetch, or to its
\* return when no key is stored; click is the click that called it.
handleSummarize(card, click) ==
    LET apiKey == localStorage.ai_api_key
        provider == IF Truthy(localStorage.ai_provider)
                         /\ Get(localStorage.ai_provider) # ""
                      THEN Get(localStorage.ai_provider) ELSE "openai"
    IN  IF IsNull(apiKey) \/ Get(apiKey) = <<>>
          THEN /\ home' = [home EXCEPT !.showAIConfig = TRUE]
               /\ modal' = Shown
               /\ event' = [click |-> Some(click), invoked |-> <<card>>,
                            posted |-> Null,
                            alert |-> Some("Please configure your AI API key first!")]
               /\ UNCHANGED <<localStorage, inflight, lastSave>>
          ELSE /\ HasFreeCall
               /\ home' = [home EXCEPT !.summarizingRepo = Some(ToString(card))]
               /\ inflight' = [inflight EXCEPT ![FreeCall] =
                                  Some([kind |-> "summarize", repository |-> card])]
               /\ event' = [click |-> Some(click), invoked |-> <<card>>,
                            posted |-> Some(PostBody(card, Get(apiKey), provider)),
                            alert |-> Null]
               /\ UNCHANGED <<localStorage, modal, lastSave>>

\* The user clicks the summarize button of a card: a disabled button
\* delivers no click; otherwise handleSummarizeClick runs.
ClickSummarize(card) ==
    /\ CardsShown /\ \E i \in DOMAIN home.repositories : home.repositories[i] = card
    /\ LET loading == isLoading(card)
           click == [card |-> card, isLoading |-> loading,
                     disabled |-> disabled(loading)]
           invoked == IF click.disabled
                        THEN <<>> ELSE handleSummarizeClick(card, loading)
       IN  IF invoked = <<>>
             THEN /\ event' = [NoEvent EXCEPT !.click = Some(click)]
                  /\ UNCHANGED <<localStorage, home, modal, inflight, lastSave>>
             ELSE handleSummarize(card, click)
    /\ UNCHANGED <<trendsVars, functionVars, summarizeVars>>

\* page.jsx 119-133: the answer to the POST arrives.
SummarizeResponded(c, ok) ==
    /\ Truthy(inflight[c]) /\ Get(inflight[c]).kind = "summarize"
    /\ home' = [home EXCEPT !.summarizingRepo = Null]
    /\ inflight' = [inflight EXCEPT ![c] = Null]
    /\ event' = [NoEvent EXCEPT
                   !.alert = Some(IF ok THEN "AI Summary"
                                        ELSE "Failed to generate summary")]
    /\ UNCHANGED <<localStorage, modal, lastSave>>
    /\ UNCHANGED <<trendsVars, functionVars, summarizeVars>>

PageNext ==
    \/ handleRefresh
    \/ Retry
    \/ \E c \in CallSlots, outcome \in TrendsOutcomes : TrendsResponded(c, outcome)
    \/ OpenConfig
    \/ \E value \in ProviderOptions : setProvider(value)
    \/ \E value \in KeyInputs : setApiKey(value)
    \/ \E outcome \in StorageOutcomes : handleSave(outcome)
    \/ Saved
    \/ handleClose
    \/ \E i \in DOMAIN Cards : ClickSummarize(Cards[i])
    \/ \E c \in CallSlots, ok \in BOOLEAN : SummarizeResponded(c, ok)

PageSpec == Init /\ [][PageNext]_vars

(***************************************************************************)
(* The topics of a card (NewsCard, in NewsCard.test.jsx 656-689): a         *)
(* repository is given to the component, which renders its tags.            *)
(***************************************************************************)
\* The topics a repository may carry.
TopicNames ==
    { aiTopics[1], aiTopics[2], <<"A", "I">>, <<"m", "l">>, <<"n", "l", "p">>,
      <<"p", "y", "t", "h", "o", "n">>, aiTopics[8] }

\* The topics property of a repository: absent, or a list of different
\* topics.
TopicLists ==
    {Null} \cup
    { Some(l) : l \in
        { f \in UNION {[1..n -> TopicNames] : n \in 0..MaxTopics} :
            \A i, j \in DOMAIN f : f[i] = f[j] => i = j } }

\* NewsCard 656-689: the element with role "list", the two tags it always
\* holds, the tags made of the repository's topics, and the "+N" element.
topicsDisplay(topics) ==
    LET other == IF Truthy(topics)
                   THEN SelectSeq(Get(topics),
                           LAMBDA topic :
                              ToLowerCase(topic) \notin {aiTopics[1], aiTopics[2]})
                   ELSE <<>>
        more == Truthy(topics) /\ Len(Get(topics)) > 0
    IN  [list |-> TRUE,
         fixed |-> <<"AI", "Machine Learning">>,
         topics |-> IF more
                      THEN SubSeq(other, 1, IF Len(other) < 3 THEN Len(other) ELSE 3)
                      ELSE <<>>,
         overflow |-> IF more /\ Len(other) > 3
                        THEN Some([text |-> Len(other) - 3,
                                   label |-> Len(Get(topics)) - 5])
                        ELSE Null]

TopicsInit ==
    /\ ProcessStart
    /\ arg \in {Some([topics |-> topics]) : topics \in TopicLists}
    /\ result = Null
    /\ SummarizeStart
    /\ PageStart

Render ==
    /\ Truthy(arg)
    /\ IsNull(result)
    /\ result' = Some(topicsDisplay(Get(arg).topics))
    /\ UNCHANGED <<arg, trendsVars, summarizeVars, pageVars>>

TopicsNext == Render

TopicsSpec == TopicsInit /\ [][TopicsNext]_vars

(***************************************************************************)
(* Vocabulary of the claims.                                               *)
(***************************************************************************)
FiveMinutes == 5 * 60 * 1000

Directive == "public, s-maxage=300, stale-while-revalidate=600"

\* The URL of a request carries the query parameter t, whatever its value.
CarriesT(url) == \E i \in DOMAIN url.params : url.params[i][1] = "t"

\* The slot c is populated and younger than five minutes at time t.
Fresh(c, t) == Truthy(c.data) /\ t - c.lastFetch < FiveMinutes

\* The answers that read the cache slot, and the fallbacks among them.
StaleReturns == {"staleStatus", "staleCatch"}

ReadReturns == {"hit"} \cup StaleReturns

\* The step just taken answered a GET /trends request.
Answered == Truthy(sent) /\ Get(sent).ret # "options"

\* That answer: its return statement, its response, its upstream calls.
Ret == Get(sent).ret

Response == Get(sent).response

Calls == Get(sent).calls

\* The step just taken answered a request whose refresh attempt failed.
Failed == Answered /\ Calls = 1 /\ Ret # "refreshed"

\* A step in which a request arrives in slot r and goes to the upstream.
Misses(r) == req[r].pc = "idle" /\ req'[r].pc = "awaitFetch"

\* A step in which the refresh of request r succeeds.
Refreshes(r) ==
    /\ req[r].pc = "awaitJson"
    /\ req'[r].pc = "idle"
    /\ Truthy(sent') /\ Get(sent').ret = "refreshed"

(***************************************************************************)
(* C1.  Freshness gating: a GET without the bypass marker that arrives     *)
(* while the slot is populated and younger than 5 minutes does not go to   *)
(* the upstream; the answer it is given at once carries exactly the stored *)
(* sequence and the stored timestamp, and no warning.                      *)
(***************************************************************************)
FreshnessGating ==
    [][/\ \A r \in Requests :
             (Misses(r) /\ ~CarriesT(Get(req'[r].url))) => ~Fresh(cache, now)
       /\ (Truthy(sent') /\ Get(sent').ret = "hit")
          => /\ Get(sent').calls = 0
             /\ req' = req
             /\ Get(sent').response.status = 200
             /\ Get(sent').response.repositories = Get(cache.data)
             /\ Get(sent').response.cached_at = Some(ToISOString(cache.lastFetch))
             /\ IsNull(Get(sent').response.warning)]_vars

\* A request was answered from a populated slot 500 ms old.
FreshnessGatingWitness ==
    /\ Answered
    /\ Ret = "hit"
    /\ Response.repositories # <<>>
    /\ now - cache.lastFetch = 500

(***************************************************************************)
(* C2.  Bypass forces refresh: a GET whose URL carries the parameter t,    *)
(* whatever its value and whatever the cache state, is never answered      *)
(* without an upstream call: it is at its upstream call, which it has      *)
(* issued, as soon as it has arrived.                                      *)
(***************************************************************************)
BypassForcesRefresh ==
    /\ (Answered /\ Calls = 0)
       => Truthy(Get(sent).url) /\ ~CarriesT(Get(Get(sent).url))
    /\ \A r \in Requests : req[r].pc # "idle" => req[r].calls = 1

\* A request with an empty-valued t is at its upstream call although the
\* slot was fresh when it arrived.
BypassForcesRefreshWitness ==
    \E r \in Requests :
        /\ req[r].pc = "awaitFetch"
        /\ Get(req[r].url).params = << <<"t", "">> >>
        /\ req[r].now = now
        /\ req[r].cacheAge = 500
        /\ Fresh(cache, now)

(***************************************************************************)
(* C3.  Stale fallback: when a refresh attempt fails (non-2xx status,      *)
(* transport error, unusable body) and the slot is populated, the request  *)
(* answers with a success status, the stored sequence, that sequence's     *)
(* timestamp and a non-empty warning.                                      *)
(***************************************************************************)
StaleFallback ==
    (Failed /\ Truthy(cache.data))
    => /\ Ret \in StaleReturns
       /\ Response.status = 200
       /\ Response.repositories = Get(cache.data)
       /\ Response.cached_at = Some(ToISOString(cache.lastFetch))
       /\ Truthy(Response.warning)
       /\ Get(Response.warning) # ""
       /\ IsNull(Response.error)

\* The catch block fell back on a non-empty stored sequence that was past
\* the freshness window.
StaleFallbackWitness ==
    /\ Answered
    /\ Ret = "staleCatch"
    /\ Response.repositories # <<>>
    /\ ~Fresh(cache, now)

FilterResults == {filteredRepositories(items) : items \in ItemLists}

\* The response to a successful refresh and the slot c left by it.
RefreshAnswer(c, response) ==
    /\ response.repositories \in FilterResults
    /\ c.data = Some(response.repositories)
    /\ response.status = 200
    /\ response.cached_at = Some(ToISOString(c.lastFetch))
    /\ response.total_count = Len(response.repositories)
    /\ response.cache_age_seconds = Some(0)
    /\ IsNull(response.warning)

SuccessfulRefreshStoresCurrentTime ==
    (Answered /\ Ret = "refreshed")
    => RefreshAnswer(cache, Response) /\ cache.lastFetch = now

\* C5 as amended: the timestamp stored is the time the request read when it
\* arrived (before its upstream call), which is not later than the current
\* time; the rest is as claimed.
SuccessfulRefresh ==
    [][\A r \in Requests :
          Refreshes(r)
          => /\ RefreshAnswer(cache', Get(sent').response)
             /\ cache'.lastFetch = req[r].now
             /\ cache'.lastFetch <= now']_vars

\* A refresh stored a non-empty sequence under a time that had passed.
SuccessfulRefreshWitness ==
    /\ Answered
    /\ Ret = "refreshed"
    /\ Response.repositories # <<>>
    /\ cache.data = Some(Response.repositories)
    /\ cache.lastFetch < now

(***************************************************************************)
(* C6.  Atomic slot replacement: under every interleaving, the slot holds  *)
(* the sequence and the timestamp stored by one and the same successful    *)
(* refresh (the last), and every answer that reads the slot carries the    *)
(* sequence and the timestamp of that one refresh.                         *)
(***************************************************************************)
AtomicSlotReplacement ==
    /\ IF IsNull(refreshed)
         THEN IsNull(cache.data)
         ELSE /\ cache.data = Some(Get(refreshed).data)
              /\ cache.lastFetch = Get(refreshed).at
    /\ (Answered /\ Ret \in ReadReturns)
       => /\ Truthy(refreshed)
          /\ Response.repositories = Get(refreshed).data
          /\ Response.cached_at = Some(ToISOString(Get(refreshed).at))

\* A request that arrived before any refresh (the age it reports is the
\* whole time since the epoch) read, after its upstream call failed, the
\* slot that another request had filled meanwhile, while a third handler is
\* suspended.
AtomicSlotReplacementWitness ==
    /\ Answered
    /\ Ret = "staleStatus"
    /\ Get(Response.cache_age_seconds) >= RoundSeconds(StartTime)
    /\ Response.repositories # <<>>
    /\ \E r \in Requests : req[r].pc = "awaitJson"

(***************************************************************************)
(* C7.  Only a successful refresh changes the slot: every step that        *)
(* changes it is the step of a request whose refresh succeeds; a cache     *)
(* hit, a failed refresh and OPTIONS leave it as it is, and OPTIONS makes  *)
(* no upstream call.                                                       *)
(***************************************************************************)
OnlyRefreshMutates ==
    [][/\ cache' # cache => \E r \in Requests : Refreshes(r)
       /\ (Truthy(sent') /\ Get(sent').ret # "refreshed") => cache' = cache
       /\ (Truthy(sent') /\ Get(sent').ret = "options")
          => Get(sent').calls = 0 /\ req' = req]_vars

\* OPTIONS reported a populated slot past the freshness window while a
\* handler was suspended.
OnlyRefreshMutatesWitness ==
    /\ Truthy(sent)
    /\ Get(sent).ret = "options"
    /\ Response.has_data
    /\ Response.is_valid = Some(FALSE)
    /\ Response.last_fetch = Some(ToISOString(cache.lastFetch))
    /\ \E r \in Requests : req[r].pc = "awaitText"

(***************************************************************************)
(* C8.  No single-flight, last write wins: only a fresh slot answers an    *)
(* arriving GET; every other arrival issues its own upstream call, whether *)
(* or not another request is at its upstream call; and a succeeding        *)
(* refresh overwrites the slot with its own sequence and time, whatever    *)
(* the slot holds, so that the slot is that of the request that wrote last.*)
(***************************************************************************)
LastWriteWins ==
    [][/\ (Truthy(sent') /\ Get(sent').ret = "hit") => Fresh(cache, now)
       /\ \A r \in Requests :
             (req[r].pc = "idle" /\ req'[r] # req[r])
             => Misses(r) /\ req'[r].calls = 1
       /\ \A r \in Requests :
             Refreshes(r)
             => /\ cache'.data = Some(Get(sent').response.repositories)
                /\ cache'.lastFetch = req[r].now
                /\ refreshed' = Some([data |-> Get(sent').response.repositories,
                                      at |-> req[r].now])]_vars

\* Two requests that both arrived on a slot that was not fresh each made
\* an upstream call; the one that arrived later has stored its result, the
\* other is still to store its own, under the earlier time.
LastWriteWinsWitness ==
    /\ Answered
    /\ Ret = "refreshed"
    /\ Calls = 1
    /\ \E r \in Requests :
          /\ req[r].pc = "awaitJson"
          /\ req[r].calls = 1
          /\ req[r].now < cache.lastFetch

(***************************************************************************)
(* C9.  Cache slot invariant: the slot is empty until a refresh has        *)
(* succeeded, and whenever the sequence is present, the timestamp is       *)
(* present (not the initial 0) and not later than the current time.        *)
(***************************************************************************)
CacheSlotInvariant ==
    /\ IsNull(refreshed) => cache = [data |-> Null, lastFetch |-> 0]
    /\ Truthy(cache.data) => cache.lastFetch # 0 /\ cache.lastFetch <= now

\* The slot holds a sequence stored at a time now past.
CacheSlotInvariantWitness ==
    /\ Truthy(cache.data)
    /\ cache.lastFetch > StartTime
    /\ cache.lastFetch < now

(***************************************************************************)
(* C10.  Every success response of GET /trends (cache hit, successful      *)
(* refresh, stale fallback) carries the caching directive                  *)
(* s-maxage=300, stale-while-revalidate=600.                               *)
(***************************************************************************)
EveryResponseCarriesDirective ==
    (Answered /\ Ret \in ReadReturns \cup {"refreshed"})
    => Response.cacheControl = Some(Directive)

(***************************************************************************)
(* Vocabulary of the claims about the filter.                              *)
(***************************************************************************)
\* The filter has been applied: the result set it was given, what it kept.
FilterRan == Truthy(arg) /\ Truthy(result)

Items == Get(arg)

Kept == Get(result)

InSeq(x, s) == \E i \in DOMAIN s : s[i] = x

MachineLearning ==
    <<"m", "a", "c", "h", "i", "n", "e", "-", "l", "e", "a", "r", "n", "i", "n", "g">>

Neural == <<"n", "e", "u", "r", "a", "l">>

\* The topic set of repo contains term, in any letter case.
HasTopic(repo, term) ==
    /\ Truthy(repo.topics)
    /\ \E t \in DOMAIN Get(repo.topics) : ToLowerCase(Get(repo.topics)[t]) = term

\* The description of repo contains term, in any letter case.
DescriptionContains(repo, term) ==
    /\ Truthy(repo.description)
    /\ Includes(ToLowerCase(Get(repo.description)), term)

Digits == {"0", "1", "2", "3", "4", "5", "6", "7", "8", "9"}

IsWordChar(c) ==
    \/ \E i \in 1..26 : c = LowerChars[i] \/ c = UpperChars[i]
    \/ c \in Digits

\* The word (or two-word phrase) pat stands in s as a word of its own, not
\* as a part of a longer word.
WordFound(s, pat) ==
    \E i \in 0..(Len(s) - Len(pat)) :
        /\ \A j \in 1..Len(pat) : AtomMatches(pat[j], s[i + j])
        /\ i = 0 \/ ~IsWordChar(s[i])
        /\ i + Len(pat) = Len(s) \/ ~IsWordChar(s[i + Len(pat) + 1])

\* One of the topics of repo is a term of the AI-relevance vocabulary.
HasVocabularyTopic(repo) ==
    \E a \in DOMAIN aiTopics : HasTopic(repo, aiTopics[a])

\* The name or the description of repo has a word of the AI-adjacent
\* vocabulary.
HasVocabularyWord(repo) ==
    \E p \in DOMAIN aiPattern :
        \/ WordFound(repo.name, aiPattern[p])
        \/ /\ Truthy(repo.description)
           /\ WordFound(Get(repo.description), aiPattern[p])

\* s is t with some elements left out.
IsSubsequence(s, t) ==
    \E f \in [DOMAIN s -> DOMAIN t] :
        /\ \A i, j \in DOMAIN s : i < j => f[i] < f[j]
        /\ \A i \in DOMAIN s : t[f[i]] = s[i]

SortedByStars(l) ==
    \A i \in 1..(Len(l) - 1) :
        Repository[l[i]].stargazers_count >= Repository[l[i + 1]].stargazers_count

FilterExclusion ==
    FilterRan
    => \A i \in DOMAIN Items :
          LET repo == Repository[Items[i]]
          IN  (~HasVocabularyTopic(repo) /\ ~HasVocabularyWord(repo))
              => ~InSeq(Items[i], Kept)

(***************************************************************************)
(* C13.  Rank preservation: the filtered sequence of a result set sorted   *)
(* by star count descending is a subsequence of it (the surviving records  *)
(* keep their relative order), and so is sorted by star count descending.  *)
(***************************************************************************)
RankPreservation ==
    (FilterRan /\ SortedByStars(Items))
    => IsSubsequence(Kept, Items) /\ SortedByStars(Kept)

\* Of three records, the one in the middle was dropped and the two around
\* it were kept in their order.
RankPreservationWitness ==
    /\ FilterRan
    /\ Len(Items) = 3
    /\ Len(Kept) = 2
    /\ Kept = <<Items[1], Items[3]>>
    /\ Repository[Items[1]].stargazers_count > Repository[Items[3]].stargazers_count

(***************************************************************************)
(* Vocabulary of the claim about the query.                                *)
(***************************************************************************)
\* The query has been built: at which time, in which zone, and its text.
QueryBuilt == Truthy(arg) /\ Truthy(result)

QueryTime == Get(arg).date

QueryText == Get(result)

CreatedAfter ==
    <<"t", "o", "p", "i", "c", ":", "a", "i", " ", "c", "r", "e", "a", "t",
      "e", "d", ":", ">">>

\* The number written by a sequence of decimal digits.
NumberOf(digits) ==
    LET value[k \in 0..Len(digits)] ==
            IF k = 0
              THEN 0
              ELSE 10 * value[k - 1]
                   + (CHOOSE n \in 0..9 : DigitChars[n + 1] = digits[k])
    IN  value[Len(digits)]

\* The calendar date <<year, month, day>> written as YYYY-MM-DD.
DateOf(text) ==
    <<NumberOf(SubSeq(text, 1, 4)), NumberOf(SubSeq(text, 6, 7)),
      NumberOf(SubSeq(text, 9, 10))>>

\* The calendar date of the time t in UTC (the dates of the upstream), and
\* in the time zone of the process.
CalendarDate(t) ==
    <<YearFromDay(t.day), MonthFromDay(t.day) + 1, DateFromDay(t.day)>>

LocalCalendarDate(tz, t) == CalendarDate(AddMs(t, LocalTZA(tz, t, TRUE)))

\* The day before a calendar date.
DayBefore(d) ==
    IF d[3] > 1
      THEN <<d[1], d[2], d[3] - 1>>
      ELSE IF d[2] > 1
             THEN <<d[1], d[2] - 1, DaysInMonth(d[1])[d[2] - 1]>>
             ELSE <<d[1] - 1, 12, 31>>

SevenDaysBefore(d) ==
    DayBefore(DayBefore(DayBefore(DayBefore(DayBefore(DayBefore(DayBefore(d)))))))

(***************************************************************************)
(* C14.  Query cutoff correctness: for every time T at which a refresh is  *)
(* attempted, the date after "created:>" in the upstream query is the      *)
(* calendar date exactly 7 days before T, across month and year ends too;  *)
(* the calendar date of T is taken in UTC or in the zone of the process,   *)
(* whichever suits the query.                                              *)
(***************************************************************************)
QueryCutoff ==
    QueryBuilt
    => /\ SubSeq(QueryText, 1, Len(CreatedAfter)) = CreatedAfter
       /\ Len(QueryText) = Len(CreatedAfter) + 10
       /\ DateOf(SubSeq(QueryText, Len(CreatedAfter) + 1, Len(QueryText)))
             \in {SevenDaysBefore(CalendarDate(QueryTime)),
                  SevenDaysBefore(LocalCalendarDate(Get(arg).tz, QueryTime))}

(***************************************************************************)
(* Vocabulary of the claims about POST /summarize.                         *)
(***************************************************************************)
SupportedProviders == {"openai", "groq"}

\* Text, credential and provider are present and not empty, and the
\* provider is a supported one.
WellFormed(body) ==
    /\ body.text \notin {Null, Some("")}
    /\ body.apiKey \notin {Null, Some("")}
    /\ body.provider \in {Some(p) : p \in SupportedProviders}

\* The endpoint and model of each supported provider.
EndpointOf(provider) ==
    IF provider = "openai"
      THEN "https://api.openai.com/v1/chat/completions"
      ELSE "https://api.groq.com/openai/v1/chat/completions"

ModelOf(provider) ==
    IF provider = "openai" THEN "gpt-3.5-turbo" ELSE "mixtral-8x7b-32768"

\* The step just taken answered a summarize request: the request, the
\* response, the endpoints the request contacted.
Summarized == Truthy(sumSent)

SummarizeBody == Get(sumSent).body

SummarizeAnswer == Get(sumSent).response

Contacted == Get(sumSent).contacted

\* The text (a tuple of parts) has the credential k among its parts.
Quotes(text, k) == \E i \in DOMAIN text : text[i] = k

(***************************************************************************)
(* C15.  Summarize validation: a POST /summarize request in which text,    *)
(* credential or provider is missing or empty, or whose provider is not a  *)
(* supported one, is answered with a client-error (validation) response,   *)
(* and no provider endpoint is called for it.                              *)
(***************************************************************************)
SummarizeValidation ==
    /\ (Summarized /\ ~WellFormed(SummarizeBody))
       => /\ SummarizeAnswer.status \in 400..499
          /\ SummarizeAnswer.code = Some("VALIDATION_ERROR")
          /\ Truthy(SummarizeAnswer.error)
          /\ Contacted = <<>>
          /\ IsNull(sumCall)
    /\ \A r \in Requests :
          sumReq[r].pc # "idle" => WellFormed(Get(sumReq[r].body))
    /\ Truthy(sumCall)
       => \E r \in Requests :
             /\ sumReq[r].pc = "awaitProvider"
             /\ Get(sumCall).authorization = Get(sumReq[r].body).apiKey

\* A request complete but for its provider, which is not a supported one,
\* was refused while another request was at its provider.
SummarizeValidationWitness ==
    /\ Summarized
    /\ SummarizeBody.provider = Some("anthropic")
    /\ SummarizeBody.text = Some("vision-kit: No description")
    /\ SummarizeBody.apiKey = Some("sk-1")
    /\ SummarizeAnswer.status = 400
    /\ \E r \in Requests : sumReq[r].pc = "awaitProvider"

(***************************************************************************)
(* C16.  Provider routing: a valid request with provider "openai" contacts *)
(* the OpenAI endpoint and model only, one with provider "groq" the Groq   *)
(* endpoint and model only; no other endpoint is contacted for it.         *)
(***************************************************************************)
ProviderRouting ==
    /\ Truthy(sumCall)
       => \E r \in Requests :
             LET provider == Get(Get(sumReq[r].body).provider)
             IN  /\ sumReq[r].pc = "awaitProvider"
                 /\ Get(sumCall).endpoint = EndpointOf(provider)
                 /\ Get(sumCall).model = ModelOf(provider)
                 /\ Get(sumCall).authorization = Get(sumReq[r].body).apiKey
    /\ \A r \in Requests :
          sumReq[r].pc = "awaitProvider"
          => sumReq[r].contacted
                = <<EndpointOf(Get(Get(sumReq[r].body).provider))>>
    /\ (Summarized /\ WellFormed(SummarizeBody))
       => Contacted = <<EndpointOf(Get(SummarizeBody.provider))>>

\* A groq request was answered with a summary, having contacted the Groq
\* endpoint, while an openai request was at its provider.
ProviderRoutingWitness ==
    /\ Summarized
    /\ SummarizeBody.provider = Some("groq")
    /\ SummarizeAnswer.status = 200
    /\ SummarizeAnswer.provider = Some("groq")
    /\ Contacted = <<"https://api.groq.com/openai/v1/chat/completions">>
    /\ \E r \in Requests :
          /\ sumReq[r].pc = "awaitProvider"
          /\ Get(sumReq[r].body).provider = Some("openai")

(***************************************************************************)
(* C17.  Credential non-persistence: after a summarize call, successful or *)
(* failed, the submitted credential is in no server log line, not in the   *)
(* response body, and in no server state that outlives the request.        *)
(***************************************************************************)
CredentialNonPersistence ==
    /\ \A k \in ApiKeys :
          \A i \in DOMAIN sumLog : ~Quotes(sumLog[i], k)
    /\ Summarized
       => \A k \in ApiKeys :
             /\ SummarizeAnswer.summary # Some(k)
             /\ SummarizeAnswer.provider # Some(k)
             /\ SummarizeAnswer.code # Some(k)
             /\ Truthy(SummarizeAnswer.error)
                => ~Quotes(Get(SummarizeAnswer.error), k)
    /\ \A r \in Requests :
          sumReq[r].pc = "idle"
          => IsNull(sumReq[r].body) /\ sumReq[r].contacted = <<>>

\* A call with a credential failed at the provider and was answered and
\* logged.
CredentialNonPersistenceWitness ==
    /\ Summarized
    /\ SummarizeBody.apiKey = Some("sk-1")
    /\ SummarizeAnswer.status = 401
    /\ sumLog # <<>>
    /\ \A r \in Requests : sumReq[r].pc = "idle"

(***************************************************************************)
(* The page: the settings store, the configuration modal, the cards.       *)
(***************************************************************************)

\* The step just taken posted a body to /api/summarize.
Posted == Truthy(event.posted)

\* The step just taken was a click on a card's summarize button.
Clicked == Truthy(event.click)

\* A save wrote both items of the store, and no save wrote since.
SaveCompleted == Truthy(lastSave) /\ Get(lastSave).complete

\* What the user had entered at that save.
Entered == Get(lastSave)

\* What a read of the store returns: the modal's effect on re-open, and
\* handleSummarize in the body it posts.
ReadOnReopen == [apiKey |-> Shown.apiKey, provider |-> Shown.provider]

ReadOnSummarize ==
    [apiKey |-> Get(event.posted).apiKey, provider |-> Get(event.posted).provider]

\* C18: after any sequence of configuration saves, the provider held in
\* the settings store, and the provider of every body the page posts to
\* /api/summarize, is "openai" or "groq".
ClosedProviderSet ==
    /\ Truthy(localStorage.ai_provider)
          => Get(localStorage.ai_provider) \in SupportedProviders
    /\ Posted => Get(event.posted).provider \in SupportedProviders

LoadingGuard ==
    Clicked =>
        IF Get(event.click).isLoading
          THEN Get(event.click).disabled /\ event.invoked = <<>>
          ELSE event.invoked = <<Get(event.click).card>>

\* A click on the button of the card that is loading.
LoadingGuardWitness ==
    /\ Clicked /\ Get(event.click).isLoading
    /\ home.summarizingRepo = Some(ToString(Get(event.click).card))

(***************************************************************************)
(* The tags of a card.                                                     *)
(***************************************************************************)
\* The card has been rendered: the topics it was given, what it shows.
Rendered == Truthy(arg) /\ Truthy(result)

GivenTopics == IF Truthy(Get(arg).topics) THEN Get(Get(arg).topics) ELSE <<>>

\* C21: the card shows exactly the first 5 topics of the repository, in
\* order; with more than 5 topics it also shows "+N", N being the number of
\* topics less 5; with at most 5 topics it shows no "+N"; with no topic it
\* renders no topics list.
TopicsDisplayLimit ==
    Rendered =>
        LET n == Len(GivenTopics)
            shown == Get(result)
        IN  /\ shown.topics = SubSeq(GivenTopics, 1, IF n < 5 THEN n ELSE 5)
            /\ n > 5 => Truthy(shown.overflow) /\ Get(shown.overflow).text = n - 5
            /\ n <= 5 => IsNull(shown.overflow)
            /\ n = 0 => ~shown.list

(***************************************************************************)
(* C22.  Expiry boundary: a GET without the bypass marker that arrives     *)
(* when the slot is empty or 300000 ms old or older issues an upstream     *)
(* call; the stored data is served without a call only at ages strictly    *)
(* below 300000 ms.                                                        *)
(***************************************************************************)
ExpiryBoundary ==
    /\ (Answered /\ Calls = 0)
       => /\ Ret = "hit"
          /\ Truthy(cache.data)
          /\ now - cache.lastFetch < 300000
    /\ \A r \in Requests :
          (req[r].pc = "awaitFetch" /\ ~req[r].forceRefresh)
          => req[r].calls = 1 /\ req[r].cacheAge >= 300000

\* A request without the marker that arrived on a populated slot exactly
\* 300000 ms old is at its upstream call.
ExpiryBoundaryWitness ==
    \E r \in Requests :
        /\ req[r].pc = "awaitFetch"
        /\ ~req[r].forceRefresh
        /\ req[r].now = now
        /\ Truthy(cache.data)
        /\ now - cache.lastFetch = 300000

(***************************************************************************)
(* C23.  Errors surface only without prior data: under every interleaving, *)
(* a GET /trends request is given the error (500) response only when the   *)
(* slot is empty at the moment its failure is handled; while the slot      *)
(* holds data no error response is produced, also when the slot was        *)
(* filled by another request after this one had started.                   *)
(***************************************************************************)
ErrorsOnlyWithoutData ==
    (Answered /\ (Ret = "error" \/ Response.status = 500 \/ Truthy(Response.error)))
    => IsNull(cache.data)

\* A request that arrived on an empty slot (the age it reports is the whole
\* time since the epoch) and whose upstream call was refused is answered
\* with the data another request has stored in the meantime.
ErrorsOnlyWithoutDataWitness ==
    /\ Answered
    /\ Ret = "staleStatus"
    /\ Response.status = 200
    /\ IsNull(Response.error)
    /\ Response.cache_age_seconds = Some(RoundSeconds(StartTime))
    /\ Response.repositories = Get(cache.data)

(***************************************************************************)
(* C24.  Stale age consistency: in every stale-fallback response, under    *)
(* every interleaving, the cache age reported is the age of the slot whose *)
(* records and timestamp are returned: the time of handling (a time not    *)
(* before the returned timestamp and not after the present) less the       *)
(* returned timestamp, rounded to seconds.                                 *)
(***************************************************************************)
StaleAgeConsistency ==
    (Answered /\ Ret \in StaleReturns)
    => /\ Response.cached_at = Some(ToISOString(cache.lastFetch))
       /\ \E t \in Clock :
             /\ cache.lastFetch <= t
             /\ t <= now
             /\ Response.cache_age_seconds = Some(RoundSeconds(t - cache.lastFetch))

(***************************************************************************)
(* C25, as stated.  Monotonic cache timestamp: over every sequence and     *)
(* interleaving of requests the timestamp stored in the slot never         *)
(* decreases.                                                              *)
(***************************************************************************)
MonotonicTimestamp == [][cache'.lastFetch >= cache.lastFetch]_vars

\* C25 as amended: only a successful refresh changes the stored timestamp,
\* and it sets it to the time its own request arrived; so the timestamp
\* never decreases except when a refresh succeeds whose request arrived
\* before the stored timestamp (it overlapped with the refresh that stored
\* the slot), and it is then lowered to that earlier time of arrival.
MonotonicUnlessOverlap ==
    [][/\ cache'.lastFetch # cache.lastFetch
          => \E r \in Requests : Refreshes(r) /\ cache'.lastFetch = req[r].now
       /\ cache'.lastFetch < cache.lastFetch
          => \E r \in Requests : Refreshes(r) /\ req[r].now < cache.lastFetch]_vars

\* A refresh has just lowered the timestamp: a request still at its
\* upstream call found, when it arrived, a slot stored later than the one
\* there is now.
MonotonicUnlessOverlapWitness ==
    /\ Answered
    /\ Ret = "refreshed"
    /\ \E r \in Requests :
          /\ req[r].pc = "awaitFetch"
          /\ req[r].cacheAge < 300000
          /\ req[r].now - req[r].cacheAge > cache.lastFetch

(***************************************************************************)
(* C26, as stated.  Upstream call budget: once the slot is populated, and  *)
(* no request carrying the bypass marker, at most one upstream call is     *)
(* issued per 5-minute window.  Two requests that arrived at the same      *)
(* instant on a populated slot are in the same window however the windows  *)
(* are laid out, so they are never both at their upstream call.            *)
(***************************************************************************)
\* Request r is at its upstream call, which it issued on a populated slot.
CallsOnPopulated(r) ==
    /\ req[r].pc = "awaitFetch"
    /\ req[r].calls = 1
    /\ req[r].cacheAge # req[r].now

UpstreamCallBudget ==
    \A r1, r2 \in Requests :
        (CallsOnPopulated(r1) /\ CallsOnPopulated(r2) /\ req[r1].now = req[r2].now)
        => r1 = r2

\* C26 as amended: once the slot is populated, and no request carrying the
\* bypass marker, a request issues no upstream call when it arrives while
\* the slot is younger than 5 minutes, and issues one upstream call of its
\* own when it arrives while the slot is 5 minutes old or older, whether
\* or not other requests are at their upstream calls and whatever became
\* of earlier calls: the calls of a window are as many as those arrivals.
CallPerExpiredArrival ==
    [][/\ (Truthy(sent') /\ Get(sent').ret = "hit")
          => Fresh(cache, now) /\ Get(sent').calls = 0 /\ req' = req
       /\ \A r \in Requests :
             Misses(r) => ~Fresh(cache, now) /\ req'[r].calls = 1
       /\ \A r \in Requests :
             req[r].pc # "idle" => req'[r].calls \in {0, req[r].calls}]_vars

\* Two requests that arrived at the same instant on a populated slot
\* 300000 ms old are both at their upstream calls.
CallPerExpiredArrivalWitness ==
    /\ CallsOnPopulated(1)
    /\ CallsOnPopulated(2)
    /\ req[1].now = req[2].now
    /\ req[1].cacheAge = 300000
    /\ req[2].cacheAge = 300000
    /\ now = req[1].now

(***************************************************************************)
(* C27.  An empty result is a cached result: when a refresh succeeds with  *)
(* no record left by the filter, the slot is populated; a request without  *)
(* the bypass marker that then arrives within the freshness window is      *)
(* served the empty sequence with no upstream call, and a refresh that     *)
(* then fails is answered with the stale fallback (the empty sequence and  *)
(* a warning), not with the error response.                                *)
(***************************************************************************)
EmptyResultIsCached ==
    /\ (Answered /\ Ret = "refreshed" /\ Response.repositories = <<>>)
       => cache.data = Some(<<>>)
    /\ cache.data = Some(<<>>)
       => /\ \A r \in Requests :
                (/\ req[r].pc = "awaitFetch"
                 /\ ~req[r].forceRefresh
                 /\ req[r].now - req[r].cacheAge = cache.lastFetch)
                => req[r].cacheAge >= 300000
          /\ (Answered /\ Ret = "hit")
             => /\ Calls = 0
                /\ Response.repositories = <<>>
                /\ Response.total_count = 0
                /\ IsNull(Response.warning)
          /\ Failed
             => /\ Ret \in StaleReturns
                /\ Response.status = 200
                /\ Response.repositories = <<>>
                /\ Truthy(Response.warning)
                /\ IsNull(Response.error)

\* A request was served the stored empty sequence, 500 ms old, without an
\* upstream call.
EmptyResultIsCachedWitness ==
    /\ Answered
    /\ Ret = "hit"
    /\ Calls = 0
    /\ cache.data = Some(<<>>)
    /\ Response.repositories = <<>>
    /\ now - cache.lastFetch = 500

(***************************************************************************)
(* C28.  Every trends request is answered: provided each upstream call in  *)
(* the end returns or fails, every GET /trends request in the end produces *)
(* one response, and one only, which is a cache hit, a refreshed answer, a *)
(* stale fallback or the error answer; no failure (non-2xx status,         *)
(* transport error, unreadable body, body without items) leaves the        *)
(* handler as an exception.                                                *)
(***************************************************************************)
ResponseKinds == {"hit", "refreshed", "staleStatus", "staleCatch", "error"}

EveryRequestAnswered ==
    /\ \A r \in Requests : (req[r].pc # "idle") ~> (req[r].pc = "idle")
    /\ [][/\ \A r \in Requests :
                (req[r].pc # "idle" /\ req'[r].pc = "idle")
                => /\ Truthy(sent')
                   /\ Get(sent').ret \in ResponseKinds \ {"hit"}
                   /\ \A q \in Requests \ {r} : req'[q] = req[q]
          /\ \A r \in Requests :
                (req[r].pc # "idle" /\ req'[r].pc # "idle" /\ req'[r] # req[r])
                => sent' = Null
          /\ (Truthy(sent') /\ Get(sent').ret # "options")
             => /\ Get(sent').ret \in ResponseKinds
                /\ Get(sent').ret = "hit" <=> req' = req]_vars

\* The error answer was given to a request whose upstream body had no
\* items, while another request is still at its upstream call.
EveryRequestAnsweredWitness ==
    /\ Answered
    /\ Ret = "error"
    /\ Response.error = Some(ItemsTypeError.message)
    /\ \E r \in Requests : req[r].pc = "awaitFetch"

(***************************************************************************)
(* C29.  Refresh indicator covers in-flight refreshes: under every         *)
(* interleaving of the initial load, clicks on Refresh and arrivals of     *)
(* responses, the refreshing flag is true (and the Refresh button          *)
(* disabled) for as long as a manual refresh is in flight.                 *)
(***************************************************************************)
\* A fetch of the trends made by a click on Refresh awaits its response.
RefreshInFlight ==
    \E c \in CallSlots :
        /\ Truthy(inflight[c])
        /\ Get(inflight[c]).kind = "trends"
        /\ Get(inflight[c]).isRefresh

RefreshIndicator == RefreshInFlight => home.refreshing

(***************************************************************************)
(* C30.  Summarize indicator covers in-flight summaries: for every         *)
(* interleaving of clicks on the summarize buttons of different cards and  *)
(* arrivals of responses, a card is loading (its button disabled) for as   *)
(* long as a summarize request for its repository is in flight.            *)
(***************************************************************************)
SummarizeIndicator ==
    \A c \in CallSlots :
        (Truthy(inflight[c]) /\ Get(inflight[c]).kind = "summarize")
        => /\ isLoading(Get(inflight[c]).repository)
           /\ disabled(isLoading(Get(inflight[c]).repository))
====
